---- MODULE Spec2Model ----
(***************************************************************************)
(* The App component of src/src/App.tsx: its React state, the asynchronous *)
(* handlers handleImageUpload and captureImage (split at their awaits),    *)
(* the synchronous handlers performFaceMatch and resetCapture, and the     *)
(* conditions under which the rendered controls are shown and enabled.     *)
(*                                                                         *)
(* Numbers: a distance or a percentage is a fixed-point number, an integer *)
(* count of units of 1/DistScale.  The descriptors used lie on one line,   *)
(* so that every distance between two of them is an exact number of units. *)
(***************************************************************************)
EXTENDS Integers, Sequences, FiniteSets, TLC

VARIABLES
    loadState,            \* progress of loadModels: "loading", "loaded", "failed"
    modelsLoaded,         \* useState(false), line 9
    referenceImage,       \* useState<string | null>(null), line 10
    referenceDescriptor,  \* useState<Float32Array | null>(null), line 11
    matchResult,          \* useState<string>(''), line 12
    capturedImage,        \* line 13
    capturedDescriptor,   \* line 14
    isProcessing,         \* line 15
    uploads,              \* invocations of handleImageUpload suspended at an await
    captures,             \* invocations of captureImage suspended at an await
    nextUrl,              \* number of object URLs created so far
    revokedUrls           \* object URLs passed to URL.revokeObjectURL

vars == <<loadState, modelsLoaded, referenceImage, referenceDescriptor, matchResult,
          capturedImage, capturedDescriptor, isProcessing, uploads, captures,
          nextUrl, revokedUrls>>

(* ------------------------------ bounds -------------------------------- *)

\* Number of uploads (object URLs created) in one behaviour.
MaxUploads == 2

(* ------------------------------ values -------------------------------- *)

\* null, for an image and for a descriptor
Null == <<>>

\* Units per 1.0 of distance.
DistScale == 30000

\* const matchThreshold = 0.5
matchThreshold == DistScale \div 2

\* The files the user may pick; NoFile is a change event with an empty file list.
Files == {"fileA", "fileB", "fileNoFace"}
NoFile == "none"

\* The frames the webcam may show when Capture is clicked.
Frames == {"frame0", "frameNear", "frameHalf", "frameFar", "frameNoFace"}

\* detectSingleFace(img).withFaceLandmarks().withFaceDescriptor(): the descriptor
\* of the face in the image, or undefined (Null) when there is none.
FaceOf(img) ==
    CASE img = "fileA"       -> <<0, 0>>
      [] img = "fileB"       -> <<3600, 4800>>
      [] img = "frame0"      -> <<0, 0>>
      [] img = "frameNear"   -> <<8997, 11996>>
      [] img = "frameHalf"   -> <<9000, 12000>>
      [] img = "frameFar"    -> <<21600, 28800>>
      [] OTHER               -> Null

\* URL.createObjectURL(file): the n-th URL created; it resolves to the file.
ObjectUrl(n, file) == <<"blob", n, file>>

\* canvas.toDataURL('image/jpeg'): the frame's pixels, encoded.
DataUrl(frame) == <<"data", frame>>

\* What an image URL resolves to.
ContentOf(url) == IF url[1] = "blob" THEN url[3] ELSE url[2]

(* --------------------------- the result text -------------------------- *)

EmptyResult == [kind |-> "empty", text |-> "", similarity |-> 0, verdict |-> ""]

Message(t) == [kind |-> "message", text |-> t, similarity |-> 0, verdict |-> ""]

\* `Match Result: ${similarity.toFixed(2)}% similar\n${verdict}`; similarity is the
\* number toFixed(2) prints, in hundredths of a percent.
Score(hundredths, v) ==
    [kind |-> "score", text |-> "Match Result", similarity |-> hundredths, verdict |-> v]

(* ----------------------------- arithmetic ----------------------------- *)

Max(a, b) == IF a >= b THEN a ELSE b
Min(a, b) == IF a <= b THEN a ELSE b

RECURSIVE SqrtSearch(_, _, _)
SqrtSearch(s, lo, hi) ==
    IF lo = hi THEN lo
    ELSE LET mid == (lo + hi + 1) \div 2
         IN  IF mid * mid <= s THEN SqrtSearch(s, mid, hi)
                               ELSE SqrtSearch(s, lo, mid - 1)

Sqrt(s) == SqrtSearch(s, 0, 46340)

RECURSIVE SumSquares(_, _, _)
SumSquares(a, b, i) ==
    IF i = 0 THEN 0
    ELSE (a[i] - b[i]) * (a[i] - b[i]) + SumSquares(a, b, i - 1)

\* faceapi.euclideanDistance(a, b)
euclideanDistance(a, b) == Sqrt(SumSquares(a, b, Len(a)))

\* Faulty variant of Similarity: the lower clamp Math.max(0, ...) is missing.
SimilarityNoFloor(distance) == Min(100 * DistScale, (DistScale - distance) * 100)

\* Math.max(0, Math.min(100, (1 - distance) * 100)), in units of 1/DistScale percent
Similarity(distance) == Max(0, Min(100 * DistScale, (DistScale - distance) * 100))

\* x.toFixed(2): the nearest multiple of 0.01, the larger one on a tie; the result
\* is the number of hundredths.
toFixed2(x) == (200 * x + DistScale) \div (2 * DistScale)

\* Faulty variant of Verdict: the boundary is included (distance <= matchThreshold).
VerdictInclusive(distance) ==
    IF distance <= matchThreshold THEN "Face Match Found" ELSE "No Match Found"

\* distance < matchThreshold ? 'Face Match Found!' : 'No Match Found'
Verdict(distance) ==
    IF distance < matchThreshold THEN "Face Match Found" ELSE "No Match Found"

\* Variant of MatchResultOf whose diagnostic names the missing descriptor.
MatchResultOfNaming(ref, cap) ==
    IF ref = Null /\ cap = Null THEN Message("Both descriptors missing")
    ELSE IF ref = Null THEN Message("Reference descriptor missing")
    ELSE IF cap = Null THEN Message("Captured descriptor missing")
    ELSE LET distance == euclideanDistance(ref, cap)
         IN  Score(toFixed2(Similarity(distance)), Verdict(distance))

\* The string performFaceMatch passes to setMatchResult, from the two descriptors.
MatchResultOf(ref, cap) ==
    IF ref = Null \/ cap = Null
    THEN Message("Please ensure both images have detected faces")
    ELSE LET distance == euclideanDistance(ref, cap)
         IN  Score(toFixed2(Similarity(distance)), Verdict(distance))

(* --------------------------- rendered controls ------------------------ *)

\* <input type="file" onChange={handleImageUpload}>: no disabled attribute
UploadEnabled == TRUE

\* <button onClick={captureImage} disabled={isProcessing}>
CaptureEnabled == ~isProcessing

\* {(referenceImage && capturedImage) && <button ...>}
CompareShown == referenceImage # Null /\ capturedImage # Null

\* Faulty variant of CompareEnabled: disabled={isProcessing} only.
CompareEnabledIgnoringDescriptors == CompareShown /\ ~isProcessing

\* disabled={isProcessing || !referenceDescriptor || !capturedDescriptor}
CompareEnabled ==
    /\ CompareShown
    /\ ~(isProcessing \/ referenceDescriptor = Null \/ capturedDescriptor = Null)

\* {(referenceImage || capturedImage) && <button onClick={resetCapture}>}
ResetEnabled == referenceImage # Null \/ capturedImage # Null

\* {!modelsLoaded && <p>Loading face recognition models...</p>}
LoadingIndicatorShown == ~modelsLoaded

(* ------------------------------- Init --------------------------------- *)

Init ==
    /\ loadState = "loading"
    /\ modelsLoaded = FALSE
    /\ referenceImage = Null
    /\ referenceDescriptor = Null
    /\ matchResult = EmptyResult
    /\ capturedImage = Null
    /\ capturedDescriptor = Null
    /\ isProcessing = FALSE
    /\ uploads = {}
    /\ captures = {}
    /\ nextUrl = 0
    /\ revokedUrls = {}

(* ----------------------------- loadModels ----------------------------- *)

\* await Promise.all([...]) resolves: setModelsLoaded(true)
loadModelsResolved ==
    /\ loadState = "loading"
    /\ loadState' = "loaded"
    /\ modelsLoaded' = TRUE
    /\ UNCHANGED <<referenceImage, referenceDescriptor, matchResult, capturedImage,
                   capturedDescriptor, isProcessing, uploads, captures, nextUrl,
                   revokedUrls>>

\* await Promise.all([...]) rejects: the catch only logs
loadModelsRejected ==
    /\ loadState = "loading"
    /\ loadState' = "failed"
    /\ UNCHANGED <<modelsLoaded, referenceImage, referenceDescriptor, matchResult,
                   capturedImage, capturedDescriptor, isProcessing, uploads, captures,
                   nextUrl, revokedUrls>>

(* -------------------------- handleImageUpload ------------------------- *)

\* Faulty variant of handleImageUpload: the early return tests only !file.
handleImageUploadUnguarded(file) ==
    /\ UploadEnabled
    /\ nextUrl < MaxUploads
    /\ IF file = NoFile
       THEN UNCHANGED vars
       ELSE /\ nextUrl' = nextUrl + 1
            /\ referenceImage' = ObjectUrl(nextUrl + 1, file)
            /\ uploads' = uploads \cup
                 {[url |-> nextUrl + 1, file |-> file, pc |-> "load", stale |-> FALSE]}
            /\ UNCHANGED <<loadState, modelsLoaded, referenceDescriptor, matchResult,
                           capturedImage, capturedDescriptor, isProcessing, captures,
                           revokedUrls>>

\* The change event of the file input, up to the first await (lines 66-80).
handleImageUpload(file) ==
    /\ UploadEnabled
    /\ nextUrl < MaxUploads
    /\ IF file = NoFile \/ ~modelsLoaded
       THEN UNCHANGED vars
       ELSE /\ nextUrl' = nextUrl + 1
            /\ referenceImage' = ObjectUrl(nextUrl + 1, file)
            /\ uploads' = uploads \cup
                 {[url |-> nextUrl + 1, file |-> file, pc |-> "load", stale |-> FALSE]}
            /\ UNCHANGED <<loadState, modelsLoaded, referenceDescriptor, matchResult,
                           capturedImage, capturedDescriptor, isProcessing, captures,
                           revokedUrls>>

\* img.onload fires; detectSingleFace(...) is called and awaited (lines 77-85).
uploadImageLoaded(u) ==
    /\ u \in uploads
    /\ u.pc = "load"
    /\ uploads' = (uploads \ {u}) \cup {[u EXCEPT !.pc = "detect"]}
    /\ UNCHANGED <<loadState, modelsLoaded, referenceImage, referenceDescriptor,
                   matchResult, capturedImage, capturedDescriptor, isProcessing,
                   captures, nextUrl, revokedUrls>>

\* Faulty variant of uploadDetected: the no-face branch also calls
\* setReferenceDescriptor(null).
uploadDetectedClearing(u, threw) ==
    /\ u \in uploads
    /\ u.pc = "detect"
    /\ uploads' = uploads \ {u}
    /\ IF threw
       THEN /\ matchResult' = Message("Error processing the image")
            /\ UNCHANGED <<referenceDescriptor, revokedUrls>>
       ELSE /\ IF FaceOf(u.file) # Null
               THEN /\ referenceDescriptor' = FaceOf(u.file)
                    /\ UNCHANGED matchResult
               ELSE /\ matchResult' = Message("No face detected in the uploaded image")
                    /\ referenceDescriptor' = Null
            /\ revokedUrls' = revokedUrls \cup {u.url}
    /\ UNCHANGED <<loadState, modelsLoaded, referenceImage, capturedImage,
                   capturedDescriptor, isProcessing, captures, nextUrl>>

\* The detection promise settles (lines 87-100); threw: it rejected.
uploadDetected(u, threw) ==
    /\ u \in uploads
    /\ u.pc = "detect"
    /\ uploads' = uploads \ {u}
    /\ IF threw
       THEN /\ matchResult' = Message("Error processing the image")
            /\ UNCHANGED <<referenceDescriptor, revokedUrls>>
       ELSE /\ IF FaceOf(u.file) # Null
               THEN /\ referenceDescriptor' = FaceOf(u.file)
                    /\ UNCHANGED matchResult
               ELSE /\ matchResult' = Message("No face detected in the uploaded image")
                    /\ UNCHANGED referenceDescriptor
            /\ revokedUrls' = revokedUrls \cup {u.url}
    /\ UNCHANGED <<loadState, modelsLoaded, referenceImage, capturedImage,
                   capturedDescriptor, isProcessing, captures, nextUrl>>

(* ----------------------------- captureImage --------------------------- *)

\* A click on Capture, up to the first await (lines 103-124).  hasContext is
\* whether canvas.getContext('2d') returned a context.
captureImage(frame, hasContext) ==
    /\ CaptureEnabled
    /\ IF ~modelsLoaded
       THEN UNCHANGED vars
       ELSE IF ~hasContext
       THEN \* throw, catch, finally: isProcessing is true, then false again
            /\ matchResult' = Message("Error processing the captured image")
            /\ isProcessing' = FALSE
            /\ UNCHANGED <<loadState, modelsLoaded, referenceImage, referenceDescriptor,
                           capturedImage, capturedDescriptor, uploads, captures,
                           nextUrl, revokedUrls>>
       ELSE /\ isProcessing' = TRUE
            /\ captures' = captures \cup {[frame |-> frame, pc |-> "load", stale |-> FALSE]}
            /\ UNCHANGED <<loadState, modelsLoaded, referenceImage, referenceDescriptor,
                           matchResult, capturedImage, capturedDescriptor, uploads,
                           nextUrl, revokedUrls>>

\* img.onload fires: setCapturedImage(img.src), then detection is awaited.
captureImageLoaded(c) ==
    /\ c \in captures
    /\ c.pc = "load"
    /\ capturedImage' = DataUrl(c.frame)
    /\ captures' = (captures \ {c}) \cup {[c EXCEPT !.pc = "detect"]}
    /\ UNCHANGED <<loadState, modelsLoaded, referenceImage, referenceDescriptor,
                   matchResult, capturedDescriptor, isProcessing, uploads, nextUrl,
                   revokedUrls>>

\* Faulty variant of captureDetected: setIsProcessing(false) is the last statement
\* of the try block instead of a finally, so a rejected detection skips it.
captureDetectedNoFinally(c, threw) ==
    /\ c \in captures
    /\ c.pc = "detect"
    /\ captures' = captures \ {c}
    /\ IF threw
       THEN /\ matchResult' = Message("Error processing the captured image")
            /\ UNCHANGED <<capturedDescriptor, isProcessing>>
       ELSE /\ IF FaceOf(c.frame) # Null
               THEN /\ capturedDescriptor' = FaceOf(c.frame)
                    /\ UNCHANGED matchResult
               ELSE /\ matchResult' = Message("No face detected in captured image")
                    /\ UNCHANGED capturedDescriptor
            /\ isProcessing' = FALSE
    /\ UNCHANGED <<loadState, modelsLoaded, referenceImage, referenceDescriptor,
                   capturedImage, uploads, nextUrl, revokedUrls>>

\* The detection promise settles (lines 133-145).
captureDetected(c, threw) ==
    /\ c \in captures
    /\ c.pc = "detect"
    /\ captures' = captures \ {c}
    /\ IF threw
       THEN /\ matchResult' = Message("Error processing the captured image")
            /\ UNCHANGED capturedDescriptor
       ELSE IF FaceOf(c.frame) # Null
       THEN /\ capturedDescriptor' = FaceOf(c.frame)
            /\ UNCHANGED matchResult
       ELSE /\ matchResult' = Message("No face detected in captured image")
            /\ UNCHANGED capturedDescriptor
    /\ isProcessing' = FALSE
    /\ UNCHANGED <<loadState, modelsLoaded, referenceImage, referenceDescriptor,
                   capturedImage, uploads, nextUrl, revokedUrls>>

(* --------------------------- performFaceMatch ------------------------- *)

\* A click on Compare Faces.
performFaceMatch ==
    /\ CompareEnabled
    /\ matchResult' = MatchResultOf(referenceDescriptor, capturedDescriptor)
    /\ UNCHANGED <<loadState, modelsLoaded, referenceImage, referenceDescriptor,
                   capturedImage, capturedDescriptor, isProcessing, uploads, captures,
                   nextUrl, revokedUrls>>

(* ----------------------------- resetCapture --------------------------- *)

\* The handlers suspended at an await when a reset runs are marked stale; the
\* mark is bookkeeping of the model and is read by no handler.
MarkStale(ops) == {[o EXCEPT !.stale = TRUE] : o \in ops}

\* Faulty variant of resetCapture: setCapturedDescriptor(null) is missing.
resetCaptureKeepingCaptured ==
    /\ ResetEnabled
    /\ capturedImage' = Null
    /\ referenceImage' = Null
    /\ referenceDescriptor' = Null
    /\ matchResult' = EmptyResult
    /\ uploads' = MarkStale(uploads)
    /\ captures' = MarkStale(captures)
    /\ UNCHANGED <<loadState, modelsLoaded, capturedDescriptor, isProcessing, nextUrl,
                   revokedUrls>>

\* A click on Reset.
resetCapture ==
    /\ ResetEnabled
    /\ capturedImage' = Null
    /\ referenceImage' = Null
    /\ referenceDescriptor' = Null
    /\ capturedDescriptor' = Null
    /\ matchResult' = EmptyResult
    /\ uploads' = MarkStale(uploads)
    /\ captures' = MarkStale(captures)
    /\ UNCHANGED <<loadState, modelsLoaded, isProcessing, nextUrl, revokedUrls>>

(* ------------------------------- Next --------------------------------- *)

Next ==
    \/ loadModelsResolved
    \/ loadModelsRejected
    \/ \E file \in Files \cup {NoFile} : handleImageUpload(file)
    \/ \E u \in uploads : uploadImageLoaded(u)
    \/ \E u \in uploads, threw \in BOOLEAN : uploadDetected(u, threw)
    \/ \E frame \in Frames, hasContext \in BOOLEAN : captureImage(frame, hasContext)
    \/ \E c \in captures : captureImageLoaded(c)
    \/ \E c \in captures, threw \in BOOLEAN : captureDetected(c, threw)
    \/ performFaceMatch
    \/ resetCapture

Spec == Init /\ [][Next]_vars

\* The image load and the detection call of a capture complete: a suspended
\* captureImage is eventually resumed.
CaptureFairness ==
    /\ WF_vars(\E c \in captures : captureImageLoaded(c))
    /\ WF_vars(\E c \in captures, threw \in BOOLEAN : captureDetected(c, threw))

FairSpec == Spec /\ CaptureFairness

\* The handlers that read or write isProcessing or the suspended captures: model
\* loading, captureImage and resetCapture.  The upload handler and
\* performFaceMatch write neither.
CaptureNext ==
    \/ loadModelsResolved
    \/ loadModelsRejected
    \/ \E frame \in Frames, hasContext \in BOOLEAN : captureImage(frame, hasContext)
    \/ \E c \in captures : captureImageLoaded(c)
    \/ \E c \in captures, threw \in BOOLEAN : captureDetected(c, threw)
    \/ resetCapture

CaptureSpec == Init /\ [][CaptureNext]_vars /\ CaptureFairness

(* ------------------------------- claims ------------------------------- *)

BothPresent == referenceDescriptor # Null /\ capturedDescriptor # Null

CurrentDistance == euclideanDistance(referenceDescriptor, capturedDescriptor)

\* C1: every run of performFaceMatch with both descriptors present writes the
\* verdict 'Face Match Found' exactly when the distance of the two descriptors is
\* strictly below 0.5, and 'No Match Found' for every distance of 0.5 or more.
C1_MatchIffBelowHalf ==
    [][(performFaceMatch /\ BothPresent) =>
          /\ matchResult'.kind = "score"
          /\ (matchResult'.verdict = "Face Match Found") <=> (2 * CurrentDistance < DistScale)
          /\ (2 * CurrentDistance >= DistScale) => (matchResult'.verdict = "No Match Found")
      ]_vars

\* C1 witness: the score shown is the one of the current pair, whose distance is
\* exactly 0.5, and the verdict is 'No Match Found'.
C1_Witness ==
    /\ BothPresent
    /\ matchResult.kind = "score"
    /\ 2 * CurrentDistance = DistScale
    /\ matchResult = MatchResultOf(referenceDescriptor, capturedDescriptor)
    /\ matchResult.verdict = "No Match Found"

\* (1 - d) * 100 in hundredths of a percent, times DistScale (an exact integer)
ExactHundredths(d) == (DistScale - d) * 10000

Abs(x) == IF x >= 0 THEN x ELSE 0 - x

\* C2 as stated: the percentage performFaceMatch reports lies in [0,100] and equals
\* (1 - d) * 100 when that value is in the range, 0 when d > 1, 100 when d = 0.
C2_Original ==
    [][(performFaceMatch /\ BothPresent) =>
          /\ matchResult'.similarity \in 0..10000
          /\ (ExactHundredths(CurrentDistance) \in 0..(10000 * DistScale)) =>
                (matchResult'.similarity * DistScale = ExactHundredths(CurrentDistance))
          /\ (CurrentDistance > DistScale) => (matchResult'.similarity = 0)
          /\ (CurrentDistance = 0) => (matchResult'.similarity = 10000)
      ]_vars

\* C2 amended: the percentage performFaceMatch reports lies in [0,100] and is
\* (1 - d) * 100 rounded to two decimals (within 0.005 of it) when that value is in
\* the range, 0 when d > 1, 100 when d = 0.
C2_ClampedRounded ==
    [][(performFaceMatch /\ BothPresent) =>
          /\ matchResult'.similarity \in 0..10000
          /\ (ExactHundredths(CurrentDistance) \in 0..(10000 * DistScale)) =>
                (2 * Abs(matchResult'.similarity * DistScale
                         - ExactHundredths(CurrentDistance)) <= DistScale)
          /\ (CurrentDistance > DistScale) => (matchResult'.similarity = 0)
          /\ (CurrentDistance = 0) => (matchResult'.similarity = 10000)
      ]_vars

\* C2 witness: a score of 0 shown for the current pair, whose distance is 1.2.
C2_Witness ==
    /\ BothPresent
    /\ matchResult.kind = "score"
    /\ 10 * CurrentDistance = 12 * DistScale
    /\ matchResult = MatchResultOf(referenceDescriptor, capturedDescriptor)
    /\ matchResult.similarity = 0

DescriptorAbsent == referenceDescriptor = Null \/ capturedDescriptor = Null

GenericDiagnostic == Message("Please ensure both images have detected faces")

\* C3: in every reachable state where a descriptor is absent, the Compare control
\* is hidden or disabled and performFaceMatch, invoked there, writes the diagnostic
\* message; and no step taken from such a state writes a score.
C3_CompareBlockedWhenAbsent ==
    /\ [](DescriptorAbsent =>
            /\ ~CompareEnabled
            /\ MatchResultOf(referenceDescriptor, capturedDescriptor).kind = "message")
    /\ [][(DescriptorAbsent /\ matchResult' # matchResult) =>
            matchResult'.kind # "score"]_vars

\* C3 witness: both images are shown and nothing is processing, so the Compare
\* button is rendered, and only the missing reference descriptor disables it.
C3_Witness ==
    /\ referenceDescriptor = Null
    /\ capturedDescriptor # Null
    /\ CompareShown
    /\ ~isProcessing
    /\ ~CompareEnabled

\* C4 as stated: the diagnostic names the missing input, so the message written
\* when only the reference descriptor is missing differs from the one written when
\* only the captured descriptor is missing.
C4_Original ==
    (referenceDescriptor = Null /\ capturedDescriptor # Null) =>
        MatchResultOf(referenceDescriptor, capturedDescriptor)
            # MatchResultOf(capturedDescriptor, referenceDescriptor)

\* C4 amended: whichever descriptor is absent (one or both), the diagnostic is the
\* same message, 'Please ensure both images have detected faces'.
C4_SameDiagnostic ==
    DescriptorAbsent =>
        MatchResultOf(referenceDescriptor, capturedDescriptor) = GenericDiagnostic

\* C4 witness: a comparison could be attempted with only the captured descriptor
\* missing (both images shown, reference descriptor present).
C4_Witness ==
    /\ referenceDescriptor # Null
    /\ capturedDescriptor = Null
    /\ CompareShown
    /\ ~isProcessing

AllCleared ==
    /\ referenceImage = Null
    /\ capturedImage = Null
    /\ referenceDescriptor = Null
    /\ capturedDescriptor = Null
    /\ matchResult = EmptyResult

\* C5: in the state right after resetCapture, whatever the state before, both
\* images and both descriptors are absent and the result message is empty.
C5_ResetClearsAll == [][resetCapture => AllCleared']_vars

\* C5 witness: everything is cleared while an upload and a capture that were in
\* flight when the reset ran are still in flight.
C5_Witness ==
    /\ AllCleared
    /\ \E u \in uploads : u.stale
    /\ \E c \in captures : c.stale

\* C6: while an upload or a capture is in flight the four controls are disabled,
\* and at most one face-detection call is in flight.
C6_Original ==
    /\ (uploads # {} \/ captures # {}) =>
          (~UploadEnabled /\ ~CaptureEnabled /\ ~CompareEnabled /\ ~ResetEnabled)
    /\ Cardinality(uploads) + Cardinality(captures) <= 1

\* C7: while the models are not loaded (loading, or failed) modelsLoaded is false,
\* the loading indicator is shown, no image, descriptor or score is present and
\* isProcessing is false; and a failed load stays failed.
C7_DisabledUntilLoaded ==
    /\ [](loadState # "loaded" =>
            /\ ~modelsLoaded
            /\ LoadingIndicatorShown
            /\ referenceImage = Null /\ capturedImage = Null
            /\ referenceDescriptor = Null /\ capturedDescriptor = Null
            /\ matchResult.kind # "score"
            /\ ~isProcessing
            /\ uploads = {} /\ captures = {})
    /\ [][loadState = "failed" => (loadState' = "failed" /\ ~modelsLoaded')]_vars

\* C7 witness: model loading has failed.
C7_Witness == loadState = "failed" /\ ~modelsLoaded /\ LoadingIndicatorShown

\* C8: whenever the captured descriptor is present and no capture is in flight, it
\* is the descriptor of the face in the frame held in capturedImage.
C8_Original ==
    (capturedDescriptor # Null /\ captures = {}) =>
        /\ capturedImage # Null
        /\ capturedDescriptor = FaceOf(ContentOf(capturedImage))

\* C9: whenever the reference descriptor is present and no upload is in flight, it
\* is the descriptor of the face in the file held in referenceImage.
C9_Original ==
    (referenceDescriptor # Null /\ uploads = {}) =>
        /\ referenceImage # Null
        /\ referenceDescriptor = FaceOf(ContentOf(referenceImage))

\* C10: a descriptor or an image becomes present only by a step of an upload or a
\* capture that no reset has overtaken: one started after the last reset.
C10_Original ==
    [][/\ (referenceDescriptor = Null /\ referenceDescriptor' # Null) =>
            \E u \in uploads : ~u.stale /\ u \notin uploads'
       /\ (capturedDescriptor = Null /\ capturedDescriptor' # Null) =>
            \E c \in captures : ~c.stale /\ c \notin captures'
       /\ (capturedImage = Null /\ capturedImage' # Null) =>
            \E c \in captures : ~c.stale /\ c \notin captures'
       /\ (referenceImage = Null /\ referenceImage' # Null) => nextUrl' = nextUrl + 1
      ]_vars

\* The diagnostic each handler reports for a failed detection.
UploadDiagnostic(threw) ==
    Message(IF threw THEN "Error processing the image"
                     ELSE "No face detected in the uploaded image")

CaptureDiagnostic(threw) ==
    Message(IF threw THEN "Error processing the captured image"
                     ELSE "No face detected in captured image")

\* C11: when the detection of an upload (of a capture) finds no face or throws, the
\* handler ends in that step (it leaves the suspended handlers, and no new upload
\* or capture is started), the result message becomes that handler's diagnostic,
\* and neither descriptor changes.
C11_FailedDetectionOnlyReports ==
    [][/\ \A u \in uploads, threw \in BOOLEAN :
            (uploadDetected(u, threw) /\ (threw \/ FaceOf(u.file) = Null)) =>
                /\ uploads' = uploads \ {u}
                /\ captures' = captures
                /\ nextUrl' = nextUrl
                /\ matchResult' = UploadDiagnostic(threw)
                /\ referenceDescriptor' = referenceDescriptor
                /\ capturedDescriptor' = capturedDescriptor
       /\ \A c \in captures, threw \in BOOLEAN :
            (captureDetected(c, threw) /\ (threw \/ FaceOf(c.frame) = Null)) =>
                /\ captures' = captures \ {c}
                /\ uploads' = uploads
                /\ nextUrl' = nextUrl
                /\ matchResult' = CaptureDiagnostic(threw)
                /\ referenceDescriptor' = referenceDescriptor
                /\ capturedDescriptor' = capturedDescriptor
      ]_vars

\* C11 witness: the no-face diagnostic of an upload is shown, that upload has
\* ended, and the reference descriptor of an earlier upload is still present.
C11_Witness ==
    /\ matchResult = UploadDiagnostic(FALSE)
    /\ uploads = {}
    /\ referenceImage # Null
    /\ FaceOf(ContentOf(referenceImage)) = Null
    /\ referenceDescriptor # Null

\* C12: provided the image load and the detection of a capture complete, whenever
\* isProcessing is true it eventually becomes false again (whichever way the
\* detection ends), and resetCapture leaves isProcessing as it is.
C12_ProcessingEnds ==
    /\ isProcessing ~> ~isProcessing
    /\ [][resetCapture => isProcessing' = isProcessing]_vars

\* C12 witness: a capture that a reset overtook is still in flight, with
\* isProcessing true.
C12_Witness ==
    /\ isProcessing
    /\ \E c \in captures : c.stale /\ c.pc = "detect"

\* C13: in every reachable state a present reference descriptor comes with a
\* present reference image, and a present captured descriptor with a present
\* captured image, so that the Reset control is shown whenever a descriptor exists.
C13_Original ==
    /\ referenceDescriptor # Null => referenceImage # Null
    /\ capturedDescriptor # Null => capturedImage # Null
    /\ (referenceDescriptor # Null \/ capturedDescriptor # Null) => ResetEnabled

\* C14: whenever the result message holds a score and a verdict, both descriptors
\* are present and the message is the one performFaceMatch computes from the
\* current reference and captured descriptors.
C14_Original ==
    matchResult.kind = "score" =>
        /\ BothPresent
        /\ matchResult = MatchResultOf(referenceDescriptor, capturedDescriptor)

\* The object URLs of the uploads still suspended at an await.
UrlsInFlight == {u.url : u \in uploads}

\* The URL of every upload whose processing has ended is revoked.
EndedUploadsRevoked ==
    \A n \in 1..nextUrl : n \notin UrlsInFlight => n \in revokedUrls

\* referenceImage holds no revoked URL.
NoRevokedUrlShown ==
    referenceImage # Null => referenceImage[2] \notin revokedUrls

\* C15: every object URL created by an upload is revoked when that upload's
\* processing has ended, whichever way it ended, and referenceImage never holds an
\* object URL that has been revoked.
C15_Original == EndedUploadsRevoked /\ NoRevokedUrlShown

====
